---- MODULE Spec2Model ----
(***************************************************************************)
(* Stock-ledger core of the pharmacy ERP: the MySQL store reached through  *)
(* db_connector.py, and the Streamlit handlers of modules/purchase.py,     *)
(* modules/sales.py and modules/inventory.py that write medicines.StockQty.*)
(* Every browser session re-runs its page script: the script first fetches *)
(* a snapshot (self.purchase_orders, self.medicines), then the handler of  *)
(* the pressed button acts on that snapshot and writes to the store.       *)
(***************************************************************************)
EXTENDS Integers, Sequences, FiniteSets, TLC

\* ------------------------------------------------------------- bounds
NumSessions == 2
NumMeds == 2
MaxPO == 1
MaxQty == 2
MaxLines == 2
MaxReturns == 2
MaxInvoices == 1
Stock0 == 1
MaxStock == 3
Price0 == 10
NumCustomers == 1
MaxNotifications == 3
MaxDays == 1
Shelf == 15
Due == 500
MaxSales == 2
MaxSeconds == 1
MaxRacedReturns == 1

Sessions == 1..NumSessions
Meds == 1..NumMeds
POIds == 1..MaxPO
Customers == 1..NumCustomers
None == 0

\* One line of ItemsData: {"MedicineID": .., "Quantity": ..}
Line == [MedicineID : Meds, Quantity : 1..MaxQty]
LineLists == UNION {[1..n -> Line] : n \in 0..MaxLines}

VARIABLES
    db,              \* the committed MySQL store
    fetched_orders,  \* per session: self.purchase_orders of the current script run
    fetched_stock,   \* per session: StockQty column of self.medicines / self.inventory
    script,          \* per session: "run" from the fetch of a script run to its handler
    editing_po_id,   \* per session: st.session_state.editing_po_id
    last,            \* outcome of the last handler run (what the operator was shown)
    ledger,          \* bookkeeping of what the handlers reported as done
    today,           \* datetime.now().date(), in days since the start
    second,          \* datetime.now(), in seconds since the start of the day
    pending          \* per session: the store calls its running handler has left

vars == <<db, fetched_orders, fetched_stock, script, editing_po_id, last, ledger,
          today, second, pending>>

\* ------------------------------------------------------------ the store
NoRow == [Status |-> "None", ItemsData |-> <<>>]

\* SUM of Quantity over the lines of items that reference medicine m
RECURSIVE LineQty(_, _)
LineQty(items, m) ==
    IF items = <<>> THEN 0
    ELSE (IF Head(items).MedicineID = m THEN Head(items).Quantity ELSE 0)
         + LineQty(Tail(items), m)

\* SUM of Quantity over the purchase_returns rows of (po, m)
RECURSIVE ReturnedQty(_, _, _)
ReturnedQty(rows, po, m) ==
    IF rows = <<>> THEN 0
    ELSE (IF Head(rows).PurchaseOrderID = po /\ Head(rows).MedicineID = m
          THEN Head(rows).Quantity ELSE 0)
         + ReturnedQty(Tail(rows), po, m)

\* The effect of one SQL statement on the connection's working state.  An
\* UPDATE or DELETE whose WHERE matches no row changes nothing and raises
\* nothing.  StockQty is computed as written (StockQty - %s): no statement of
\* the program puts a floor under it.
ApplyStatement(d, q) ==
    CASE q.op = "InsertPO" ->
           [d EXCEPT !.purchase_orders[d.nextPO] =
                        [Status |-> "Pending", ItemsData |-> q.items],
                     !.nextPO = d.nextPO + 1]
      [] q.op = "UpdatePOItems" ->
           IF d.purchase_orders[q.po].Status = "None" THEN d
           ELSE [d EXCEPT !.purchase_orders[q.po].ItemsData = q.items]
      [] q.op = "DeletePO" ->
           [d EXCEPT !.purchase_orders[q.po] = NoRow]
      [] q.op = "SetReceived" ->
           IF d.purchase_orders[q.po].Status = "None" THEN d
           ELSE [d EXCEPT !.purchase_orders[q.po].Status = "Received"]
      [] q.op = "AddStock" ->
           [d EXCEPT !.StockQty[q.med] = d.StockQty[q.med] + q.qty]
      [] q.op = "SubStock" ->
           [d EXCEPT !.StockQty[q.med] = d.StockQty[q.med] - q.qty]
      [] q.op = "SetStock" ->
           [d EXCEPT !.StockQty[q.med] = q.qty]
      [] q.op = "InsertReturn" ->
           [d EXCEPT !.purchase_returns = Append(d.purchase_returns,
                        [PurchaseOrderID |-> q.po, MedicineID |-> q.med,
                         Quantity |-> q.qty])]
      [] q.op = "InsertInvoice" ->
           [d EXCEPT !.sales_invoices = Append(d.sales_invoices,
                        [InvoiceID |-> d.nextInvoice,
                         InvoiceNumber |-> q.params.invoice_number,
                         ItemsData |-> q.items,
                         SubTotal |-> q.params.subtotal,
                         TaxPercent |-> q.params.tax_percent,
                         TaxAmount |-> q.params.tax_amount,
                         GrandTotal |-> q.params.grand_total,
                         Status |-> q.params.status,
                         DiscountValue |-> q.params.discount_percent,
                         PaidAmount |-> q.params.paid_amount,
                         BalanceDue |-> q.params.balance_due]),
                     !.nextInvoice = d.nextInvoice + 1]
      [] q.op = "InsertPayment" ->
           [d EXCEPT !.invoice_payments = Append(d.invoice_payments,
                        [InvoiceID |-> q.invoice, Amount |-> q.amount])]
      [] q.op = "InsertNotification" ->
           [d EXCEPT !.notifications = Append(d.notifications,
                        [Type |-> q.alert.Type, Message |-> q.alert.Message,
                         category |-> q.alert.category,
                         severity |-> q.alert.severity,
                         RelatedTable |-> q.alert.RelatedTable,
                         RelatedID |-> q.alert.RelatedID,
                         Status |-> "Unread"])]
      [] q.op = "MarkRead" ->
           [d EXCEPT !.notifications =
               [i \in 1..Len(d.notifications) |->
                   IF i = q.id THEN [d.notifications[i] EXCEPT !.Status = "Read"]
                   ELSE d.notifications[i]]]
      [] q.op = "MarkAllRead" ->
           [d EXCEPT !.notifications =
               [i \in 1..Len(d.notifications) |->
                   IF d.notifications[i].Status = "Unread"
                   THEN [d.notifications[i] EXCEPT !.Status = "Read"]
                   ELSE d.notifications[i]]]
      [] q.op = "SetOutstanding" ->
           [d EXCEPT !.outstanding_amount[q.customer] = q.amount]

\* cursor.execute in a loop: statements 1..n applied in order, stopping at failAt
RECURSIVE RunStatements(_, _, _, _)
RunStatements(d, queries, i, failAt) ==
    IF i > Len(queries) \/ i = failAt THEN d
    ELSE RunStatements(ApplyStatement(d, queries[i]), queries, i + 1, failAt)

\* failAt = 0: nothing fails; failAt = k <= Len: statement k raises;
\* failAt = Len + 1: the commit raises.
Fails(queries, failAt) == failAt \in 1..(Len(queries) + 1)

FailPoints(queries) == 0..(Len(queries) + 1)

\* What went wrong in a handler run, as recorded in last.fault: 0 nothing,
\* k >= 1 the failing point of the transaction, NoConnection, NoReason (the
\* return form was submitted without a reason and nothing was sent).
NoConnection == -1
NoReason == -2
Fault(failAt, connected) == IF connected THEN failAt ELSE NoConnection

\* Variant reporting True from every path that had a connection.
execute_transaction_true_on_rollback(d, queries, failAt, connected) ==
    IF ~connected THEN [ok |-> FALSE, db |-> d]
    ELSE IF Fails(queries, failAt)
         THEN [ok |-> TRUE, db |-> d]
         ELSE [ok |-> TRUE, db |-> RunStatements(d, queries, 1, failAt)]

\* Variant committing after every statement instead of once after the loop.
execute_transaction_commit_in_loop(d, queries, failAt, connected) ==
    IF ~connected THEN [ok |-> FALSE, db |-> d]
    ELSE IF Fails(queries, failAt)
         THEN [ok |-> FALSE, db |-> RunStatements(d, queries, 1, failAt)]
         ELSE [ok |-> TRUE, db |-> RunStatements(d, queries, 1, failAt)]

execute_transaction(d, queries, failAt, connected) ==
    IF ~connected THEN [ok |-> FALSE, db |-> d]
    ELSE LET worked == RunStatements(d, queries, 1, failAt)
         IN IF Fails(queries, failAt)
            THEN [ok |-> FALSE, db |-> d]          \* conn.rollback()
            ELSE [ok |-> TRUE, db |-> worked]      \* conn.commit()

\* One statement on its own connection, committed at once.
execute_query(d, q, failed, connected) ==
    IF ~connected \/ failed THEN [ok |-> FALSE, db |-> d]
    ELSE [ok |-> TRUE, db |-> ApplyStatement(d, q)]

\* What execute_query returns to its caller: (True, last_id), (True, None) or
\* (False, None), and what `if execute_query(...)` makes of it: a tuple is
\* true when it is not empty.
ReturnValue(r) == <<r.ok, None>>
Truthy(value) == Len(value) # 0

\* ------------------------------------------------------------ Init
NoLedger == [received |-> [m \in Meds |-> 0], returned |-> [m \in Meds |-> 0],
             sold |-> [m \in Meds |-> 0], clean |-> [m \in Meds |-> TRUE],
             initial |-> [m \in Meds |-> 0]]

\* A session between script runs holds no DataFrame.
NoOrders == [p \in POIds |-> NoRow]
NoStock == [m \in Meds |-> 0]

\* ExpiryDate is NULL or a day
NoDate == [null |-> TRUE, day |-> 0]
OnDay(day) == [null |-> FALSE, day |-> day]

\* The store the program starts on: medicines and customers are there, no
\* order, invoice or notification has been written yet.
InitStore ==
    [purchase_orders |-> NoOrders,
     nextPO |-> 1,
     StockQty |-> [m \in Meds |-> Stock0],
     UnitPrice |-> [m \in Meds |-> Price0 * m],
     ExpiryDate |-> [m \in Meds |-> NoDate],
     outstanding_amount |-> [c \in Customers |-> 0],
     purchase_returns |-> <<>>,
     sales_invoices |-> <<>>,
     nextInvoice |-> 1,
     invoice_payments |-> <<>>,
     notifications |-> <<>>]

Init ==
    /\ db = InitStore
    /\ today = 0
    /\ second = 0
    /\ pending = [s \in Sessions |-> <<>>]
    /\ ledger = [NoLedger EXCEPT !.initial = [m \in Meds |-> Stock0]]
    /\ fetched_orders = [s \in Sessions |-> NoOrders]
    /\ fetched_stock = [s \in Sessions |-> NoStock]
    /\ script = [s \in Sessions |-> "idle"]
    /\ editing_po_id = [s \in Sessions |-> None]
    /\ last = [op |-> "init", ok |-> TRUE]

\* ------------------------------------------------------------ handlers
\* PurchaseModule.render(): self._get_data() at the start of a script run
get_data(s) ==
    /\ script[s] = "idle" \/ fetched_orders[s] # db.purchase_orders
    /\ fetched_orders' = [fetched_orders EXCEPT ![s] = db.purchase_orders]
    /\ script' = [script EXCEPT ![s] = "run"]
    /\ UNCHANGED <<db, fetched_stock, editing_po_id, last, ledger, today, second,
                   pending>>

\* The script run of session s ends with its handler; the next click starts a
\* new run, which fetches again.
EndRun(s) ==
    /\ script[s] = "run"
    /\ script' = [script EXCEPT ![s] = "idle"]
    /\ fetched_orders' = [fetched_orders EXCEPT ![s] = NoOrders]
    /\ fetched_stock' = [fetched_stock EXCEPT ![s] = NoStock]
    /\ UNCHANGED <<today, second, pending>>

\* The statements _mark_po_as_received queues: the status update, then one
\* relative stock update per line of the ItemsData the caller passed in.
ReceiveQueries(po_id, items) ==
    <<[op |-> "SetReceived", po |-> po_id]>> \o
    [i \in 1..Len(items) |->
        [op |-> "AddStock", qty |-> items[i].Quantity, med |-> items[i].MedicineID]]

Credit(count, items) == [m \in Meds |-> count[m] + LineQty(items, m)]

mark_po_as_received(po_id, items, failAt, connected) ==
    LET r == execute_transaction(db, ReceiveQueries(po_id, items), failAt, connected)
    IN /\ db' = r.db
       /\ last' = [op |-> "receive", ok |-> r.ok, po |-> po_id,
                   fault |-> Fault(failAt, connected)]
       /\ ledger' = IF r.ok
                    THEN [ledger EXCEPT !.received = Credit(ledger.received, items)]
                    ELSE ledger

\* "Mark Received" is offered on the rows of the fetched list whose Status is Pending
MarkReceivedButton(v) ==
    \E po_id \in POIds :
       /\ v[po_id].Status = "Pending"
       /\ LET items == v[po_id].ItemsData
          IN \E connected \in BOOLEAN, failAt \in FailPoints(ReceiveQueries(po_id, items)) :
                /\ connected \/ failAt = 0
                /\ mark_po_as_received(po_id, items, failAt, connected)

\* _create_po_modal, "Create Purchase Order": po_items were collected by "Add Item"
\* (number_input min_value=1), the supplier comes from a selectbox.
CreatePO ==
    /\ db.nextPO <= MaxPO
    /\ \E items \in LineLists, supplier_name \in BOOLEAN, failed \in BOOLEAN :
          IF ~supplier_name \/ items = <<>>
          THEN /\ ~failed
               /\ last' = [op |-> "create_po", ok |-> FALSE, reported |-> FALSE,
                           sent |-> FALSE]
               /\ UNCHANGED db
          ELSE LET r == execute_query(db, [op |-> "InsertPO", items |-> items],
                                      failed, TRUE)
               IN /\ db' = r.db
                  /\ last' = [op |-> "create_po", ok |-> r.ok,
                              reported |-> Truthy(ReturnValue(r)), sent |-> TRUE]
    /\ UNCHANGED ledger

\* medicine_options = {MedicineName: item}: a later line of the same medicine
\* replaces an earlier one, so the form holds the LAST line of each medicine.
RECURSIVE SelectedItemQty(_, _)
SelectedItemQty(items, m) ==
    IF items = <<>> THEN 0
    ELSE IF items[Len(items)].MedicineID = m THEN items[Len(items)].Quantity
    ELSE SelectedItemQty(SubSeq(items, 1, Len(items) - 1), m)

ItemMeds(items) == {items[i].MedicineID : i \in 1..Len(items)}

\* number_input(min_value=1, max_value=max_qty), max_qty = selected line's Quantity
ReturnQtyOffered(v, rows, po_id, m) ==
    1..SelectedItemQty(v[po_id].ItemsData, m)

ReturnQueries(po_id, m, qty) ==
    <<[op |-> "InsertReturn", po |-> po_id, med |-> m, qty |-> qty],
      [op |-> "SubStock", qty |-> qty, med |-> m]>>

create_return_form(v) ==
    /\ Len(db.purchase_returns) < MaxReturns
    /\ \E po_id \in POIds :
         /\ v[po_id].Status = "Received"
         /\ \E m \in ItemMeds(v[po_id].ItemsData) :
            \E qty \in ReturnQtyOffered(v, db.purchase_returns, po_id, m) :
            \E reason \in BOOLEAN, connected \in BOOLEAN,
               failAt \in FailPoints(ReturnQueries(po_id, m, qty)) :
               /\ connected \/ failAt = 0
               /\ reason \/ (connected /\ failAt = 0)
               /\ LET r == IF reason
                           THEN execute_transaction(db, ReturnQueries(po_id, m, qty),
                                                    failAt, connected)
                           ELSE [ok |-> FALSE, db |-> db]
                  IN /\ db' = r.db
                     /\ last' = [op |-> "return", ok |-> r.ok, po |-> po_id,
                                 med |-> m, qty |-> qty,
                                 fault |-> IF reason THEN Fault(failAt, connected)
                                           ELSE NoReason]
                     /\ ledger' = IF r.ok
                                  THEN [ledger EXCEPT !.returned[m] = @ + qty]
                                  ELSE ledger

\* _handle_po_delete, "Confirm Delete": one DELETE by PurchaseOrderID
handle_po_delete(po_id, failed) ==
    LET r == execute_query(db, [op |-> "DeletePO", po |-> po_id], failed, TRUE)
    IN /\ db' = r.db
       /\ last' = [op |-> "delete", ok |-> r.ok, po |-> po_id,
                   reported |-> Truthy(ReturnValue(r)), sent |-> TRUE]
       /\ UNCHANGED ledger

\* "Delete" is offered on the rows of the fetched list whose Status is Pending
DeleteButton(v) ==
    \E po_id \in POIds, failed \in BOOLEAN :
       /\ v[po_id].Status = "Pending"
       /\ handle_po_delete(po_id, failed)

\* st.data_editor(num_rows="dynamic"): the rows the operator types, with
\* quantities drawn from 1..MaxQty
EditLine == [MedicineID : Meds, Quantity : 1..MaxQty]
EditLists == UNION {[1..n -> EditLine] : n \in 0..MaxLines}

\* The editor has no column configuration: a Quantity cell takes any whole
\* number, zero and negative ones included.
AnyEditLine == [MedicineID : Meds, Quantity : (0 - 1)..1]
AnyEditLists == UNION {[1..n -> AnyEditLine] : n \in 0..MaxLines}

\* _edit_po_modal, "Update Purchase Order", with the rows typed drawn from
\* lists: one UPDATE by PurchaseOrderID
edit_po_modal(s, v, lists) ==
    /\ editing_po_id[s] # None
    /\ v[editing_po_id[s]].Status # "None"          \* po_to_edit = ....iloc[0]
    /\ \E items \in lists, supplier_name \in BOOLEAN, failed \in BOOLEAN :
          IF ~supplier_name \/ items = <<>>
          THEN /\ ~failed
               /\ last' = [op |-> "edit", ok |-> FALSE, po |-> editing_po_id[s],
                           reported |-> FALSE, sent |-> FALSE]
               /\ UNCHANGED <<db, editing_po_id>>
          ELSE LET r == execute_query(db, [op |-> "UpdatePOItems",
                                           po |-> editing_po_id[s],
                                           items |-> items], failed, TRUE)
               IN /\ db' = r.db
                  /\ last' = [op |-> "edit", ok |-> r.ok, po |-> editing_po_id[s],
                              reported |-> Truthy(ReturnValue(r)), sent |-> TRUE]
                  /\ editing_po_id' = [editing_po_id EXCEPT ![s] = None]
    /\ UNCHANGED ledger

\* ------------------------------------------------------------ sales
\* _render_invoice_form: a line offers the medicines with StockQty > 0 and
\* number_input(min_value=1, max_value=max_stock) checks each line on its own.
InvoiceFormAccepts(stock_seen, items) ==
    \A i \in 1..Len(items) :
       /\ stock_seen[items[i].MedicineID] > 0
       /\ items[i].Quantity <= stock_seen[items[i].MedicineID]

\* Amounts are Python floats of rupees; they are carried here as whole numbers
\* of 1/Scale rupee, which keeps every product with a whole percentage exact.
Scale == 10000
Money(rupees) == rupees * Scale
PercentOf(amount, percent) == (amount * percent) \div 100

\* subtotal += item["qty"] * item["price"], over the lines of the form
RECURSIVE Subtotal(_, _)
Subtotal(price, items) ==
    IF items = <<>> THEN 0
    ELSE Money(Head(items).Quantity * price[Head(items).MedicineID])
         + Subtotal(price, Tail(items))

\* Variant taxing the subtotal before the discount.
Totals_tax_before_discount(price, items, discount_percent, tax_percent) ==
    LET subtotal == Subtotal(price, items)
        discount_amount == PercentOf(subtotal, discount_percent)
        subtotal_after_discount == subtotal - discount_amount
        tax_amount == PercentOf(subtotal, tax_percent)
    IN [subtotal |-> subtotal, discount_amount |-> discount_amount,
        tax_amount |-> tax_amount,
        grand_total |-> subtotal_after_discount + tax_amount]

\* The totals _render_invoice_form computes below the item lines
Totals(price, items, discount_percent, tax_percent) ==
    LET subtotal == Subtotal(price, items)
        discount_amount == PercentOf(subtotal, discount_percent)
        subtotal_after_discount == subtotal - discount_amount
        tax_amount == PercentOf(subtotal_after_discount, tax_percent)
    IN [subtotal |-> subtotal, discount_amount |-> discount_amount,
        tax_amount |-> tax_amount,
        grand_total |-> subtotal_after_discount + tax_amount]

\* "Amount Paid": number_input(min_value=0.0,
\*                             max_value=grand_total if grand_total > 0 else 1.0)
\* The operator leaves it at the minimum, at the maximum, or half-way.
PaidMax(grand_total) == IF grand_total > 0 THEN grand_total ELSE Money(1)
PaidAmount(grand_total, part) ==
    CASE part = "none" -> 0
      [] part = "some" -> PaidMax(grand_total) \div 2
      [] part = "max" -> PaidMax(grand_total)

\* Variant that tells Pending by the amount paid alone.
InvoiceStatus_pending_when_unpaid(balance_due, paid_amount) ==
    IF paid_amount = 0 THEN "Pending"
    ELSE IF balance_due <= 0 THEN "Paid" ELSE "Partially Paid"

\* status = "Paid" if balance_due <= 0 else "Partially Paid" if paid > 0 else "Pending"
InvoiceStatus(balance_due, paid_amount) ==
    IF balance_due <= 0 THEN "Paid"
    ELSE IF paid_amount > 0 THEN "Partially Paid" ELSE "Pending"

\* invoice_number = "MUJ-" + now.strftime('%Y%m%d-%H%M%S'): the day and the
\* second of the clock, nothing else
InvoiceNumber(day, sec) == <<"MUJ", day, sec>>

\* What the form hands to _save_invoice and what _save_invoice puts in params
InvoiceParams(price, items, form, invoice_number) ==
    LET tot == Totals(price, items, form.discount_percent, form.tax_percent)
        paid_amount == PaidAmount(tot.grand_total, form.part)
        balance_due == tot.grand_total - paid_amount
    IN [invoice_number |-> invoice_number,
        subtotal |-> tot.subtotal,
        tax_percent |-> form.tax_percent,
        tax_amount |-> tot.tax_amount,
        grand_total |-> tot.grand_total,
        status |-> InvoiceStatus(balance_due, paid_amount),
        discount_percent |-> form.discount_percent,
        paid_amount |-> paid_amount,
        balance_due |-> balance_due]

\* The values of the discount, tax and payment widgets tried: all of them, and
\* the plain cash sale (no discount, no tax, paid in full or not at all).
AllForms == [discount_percent : {0, 50, 100}, tax_percent : {0, 17},
             part : {"none", "some", "max"}]
PlainForms == [discount_percent : {0}, tax_percent : {0}, part : {"none", "max"}]

\* Variant writing the quantity left, floored at zero, instead of subtracting.
InvoiceWrites_floor_at_zero(d, items, params) ==
    <<[op |-> "InsertInvoice", items |-> items, params |-> params]>> \o
    (IF params.paid_amount > 0
     THEN <<[op |-> "InsertPayment", invoice |-> d.nextInvoice,
             amount |-> params.paid_amount]>>
     ELSE <<>>) \o
    [i \in 1..Len(items) |->
        [op |-> "SetStock", med |-> items[i].MedicineID,
         qty |-> IF d.StockQty[items[i].MedicineID] >= items[i].Quantity
                 THEN d.StockQty[items[i].MedicineID] - items[i].Quantity
                 ELSE 0]]

\* Variant issuing one stock update per distinct medicine (its last line only).
InvoiceWrites_one_update_per_medicine(d, items, params) ==
    <<[op |-> "InsertInvoice", items |-> items, params |-> params]>> \o
    (IF params.paid_amount > 0
     THEN <<[op |-> "InsertPayment", invoice |-> d.nextInvoice,
             amount |-> params.paid_amount]>>
     ELSE <<>>) \o
    SelectSeq([i \in 1..Len(items) |->
                 [op |-> "SubStock", qty |-> items[i].Quantity,
                  med |-> items[i].MedicineID, line |-> i]],
              LAMBDA q : \A j \in (q.line + 1)..Len(items) :
                            items[j].MedicineID # q.med)

\* Variant writing back the quantity left as computed when the invoice is saved.
InvoiceWrites_write_back(d, items, params) ==
    <<[op |-> "InsertInvoice", items |-> items, params |-> params]>> \o
    (IF params.paid_amount > 0
     THEN <<[op |-> "InsertPayment", invoice |-> d.nextInvoice,
             amount |-> params.paid_amount]>>
     ELSE <<>>) \o
    [i \in 1..Len(items) |->
        [op |-> "SetStock", med |-> items[i].MedicineID,
         qty |-> d.StockQty[items[i].MedicineID] - LineQty(items, items[i].MedicineID)]]

\* The writes of _save_invoice in order: the invoice, the payment when
\* paid_amount > 0, then one relative stock update per line.
InvoiceWrites(d, items, params) ==
    <<[op |-> "InsertInvoice", items |-> items, params |-> params]>> \o
    (IF params.paid_amount > 0
     THEN <<[op |-> "InsertPayment", invoice |-> d.nextInvoice,
             amount |-> params.paid_amount]>>
     ELSE <<>>) \o
    [i \in 1..Len(items) |->
        [op |-> "SubStock", qty |-> items[i].Quantity, med |-> items[i].MedicineID]]

\* Each write is its own execute_query call; the result of every call after the
\* first is dropped.
RECURSIVE RunQueries(_, _, _, _)
RunQueries(d, writes, i, failed) ==
    IF i > Len(writes) THEN d
    ELSE RunQueries(execute_query(d, writes[i], i \in failed, TRUE).db,
                    writes, i + 1, failed)

\* The medicines of the lines whose stock update is among the failed writes
Undeducted(items, paid, failed) ==
    {items[i].MedicineID : i \in {j \in 1..Len(items) :
                                     j + 1 + (IF paid > 0 THEN 1 ELSE 0) \in failed}}

\* "Save & Generate Invoice" with the form filled from the fetched medicines
save_invoice(stock_seen, forms) ==
    \E items \in LineLists, form \in forms :
       /\ InvoiceFormAccepts(stock_seen, items)
       /\ LET params == InvoiceParams(db.UnitPrice, items, form,
                                      InvoiceNumber(today, second))
              writes == InvoiceWrites(db, items, params)
          IN \E failed \in SUBSET (1..Len(writes)) :
               LET first == execute_query(db, writes[1], 1 \in failed, TRUE)
               IN /\ 1 \in failed => failed = {1}
                  /\ db' = IF first.ok THEN RunQueries(first.db, writes, 2, failed)
                           ELSE db
                  /\ last' = [op |-> "finalize", ok |-> first.ok,
                              invoice |-> db.nextInvoice,
                              complete |-> failed = {},
                              seen |-> stock_seen]
                  /\ ledger' = IF first.ok
                               THEN [ledger EXCEPT
                                       !.sold = Credit(ledger.sold, items),
                                       !.clean = [m \in Meds |-> @[m] /\
                                           m \notin Undeducted(items,
                                               params.paid_amount, failed)]]
                               ELSE ledger

\* ------------------------------------------------------------ inventory
AdjustTypes == {"Add to Stock", "Remove from Stock", "Set to New Value (Correction)"}

\* Variant that empties the shelf when more is removed than it holds.
NewStock_floor_at_zero(current_stock, adj_type, quantity) ==
    CASE adj_type = "Add to Stock" -> current_stock + quantity
      [] adj_type = "Remove from Stock" ->
           IF current_stock >= quantity THEN current_stock - quantity ELSE 0
      [] adj_type = "Set to New Value (Correction)" -> quantity

NewStock(current_stock, adj_type, quantity) ==
    CASE adj_type = "Add to Stock" -> current_stock + quantity
      [] adj_type = "Remove from Stock" -> current_stock - quantity
      [] adj_type = "Set to New Value (Correction)" -> quantity

\* Variant computing the new quantity from the quantity in the store at the
\* time of the write.
render_stock_adjustment_form_from_store(item_id, stock_seen, quantities, max_stock) ==
    \E adj_type \in AdjustTypes, quantity \in quantities, failed \in BOOLEAN :
       LET new_stock == NewStock(db.StockQty[item_id], adj_type, quantity)
           shown == [op |-> "adjust", med |-> item_id, adj_type |-> adj_type,
                     quantity |-> quantity, seen |-> stock_seen[item_id],
                     before |-> db.StockQty[item_id]]
       IN /\ new_stock <= max_stock
          /\ IF new_stock < 0
             THEN /\ ~failed
                  /\ last' = shown @@ [ok |-> FALSE, reported |-> FALSE,
                                       sent |-> FALSE]
                  /\ UNCHANGED <<db, ledger>>
             ELSE LET r == execute_query(db, [op |-> "SetStock", med |-> item_id,
                                              qty |-> new_stock], failed, TRUE)
                  IN /\ db' = r.db
                     /\ last' = shown @@ [ok |-> r.ok,
                                          reported |-> Truthy(ReturnValue(r)),
                                          sent |-> TRUE]
                     /\ ledger' = IF r.ok
                                  THEN [ledger EXCEPT !.clean[item_id] = FALSE]
                                  ELSE ledger

\* _render_stock_adjustment_form(item_id), "Save Adjustment", with the quantity
\* typed drawn from quantities and the shelf holding at most max_stock.
\* current_stock is the StockQty of the DataFrame the script run fetched.
render_stock_adjustment_form(item_id, stock_seen, quantities, max_stock) ==
    \E adj_type \in AdjustTypes, quantity \in quantities, failed \in BOOLEAN :
       LET new_stock == NewStock(stock_seen[item_id], adj_type, quantity)
           shown == [op |-> "adjust", med |-> item_id, adj_type |-> adj_type,
                     quantity |-> quantity, seen |-> stock_seen[item_id],
                     before |-> db.StockQty[item_id]]
       IN /\ new_stock <= max_stock
          /\ IF new_stock < 0
             THEN /\ ~failed
                  /\ last' = shown @@ [ok |-> FALSE, reported |-> FALSE,
                                       sent |-> FALSE]
                  /\ UNCHANGED <<db, ledger>>
             ELSE LET r == execute_query(db, [op |-> "SetStock", med |-> item_id,
                                              qty |-> new_stock], failed, TRUE)
                  IN /\ db' = r.db
                     /\ last' = shown @@ [ok |-> r.ok,
                                          reported |-> Truthy(ReturnValue(r)),
                                          sent |-> TRUE]
                     /\ ledger' = IF r.ok
                                  THEN [ledger EXCEPT !.clean[item_id] = FALSE]
                                  ELSE ledger

\* ------------------------------------------------------------ notifications
\* NotificationsManager.__init__: thresholds from the settings table, else these
low_stock_threshold == 10
high_sev_stock_threshold == 5
expiry_warning_days == 30

\* Variant comparing with < where the code compares with <=.
LowStockAlerts_strictly_below(d) ==
    SelectSeq([m \in 1..NumMeds |->
                 [Type |-> "Low Stock", Message |-> d.StockQty[m],
                  category |-> "Inventory",
                  severity |-> IF d.StockQty[m] < high_sev_stock_threshold
                               THEN "High" ELSE "Medium",
                  RelatedTable |-> "medicines", RelatedID |-> m]],
              LAMBDA a : d.StockQty[a.RelatedID] < low_stock_threshold)

\* _generate_inventory_alerts, "Low Stock Alerts": one candidate per medicine
\* with StockQty <= low_stock_threshold (every medicine of the model is active);
\* Message stands for the quantity the text quotes.
LowStockAlerts(d) ==
    SelectSeq([m \in 1..NumMeds |->
                 [Type |-> "Low Stock", Message |-> d.StockQty[m],
                  category |-> "Inventory",
                  severity |-> IF d.StockQty[m] <= high_sev_stock_threshold
                               THEN "High" ELSE "Medium",
                  RelatedTable |-> "medicines", RelatedID |-> m]],
              LAMBDA a : d.StockQty[a.RelatedID] <= low_stock_threshold)

\* _generate_inventory_alerts, "Expiry Alerts": ExpiryDate between today and
\* today + expiry_warning_days; Message stands for days_left.
ExpiryAlerts(d, now) ==
    SelectSeq([m \in 1..NumMeds |->
                 [Type |-> "Expiry Warning",
                  Message |-> d.ExpiryDate[m].day - now,
                  category |-> "Inventory",
                  severity |-> IF d.ExpiryDate[m].day - now <= 7
                               THEN "High" ELSE "Medium",
                  RelatedTable |-> "medicines", RelatedID |-> m]],
              LAMBDA a : /\ ~d.ExpiryDate[a.RelatedID].null
                         /\ d.ExpiryDate[a.RelatedID].day <= now + expiry_warning_days
                         /\ d.ExpiryDate[a.RelatedID].day >= now)

\* _generate_finance_alerts: customers with outstanding_amount > 0
FinanceAlerts(d) ==
    SelectSeq([c \in 1..NumCustomers |->
                 [Type |-> "Outstanding Due", Message |-> d.outstanding_amount[c],
                  category |-> "Finance", severity |-> "Medium",
                  RelatedTable |-> "customers", RelatedID |-> c]],
              LAMBDA a : d.outstanding_amount[a.RelatedID] > 0)

\* What can go wrong in one scan: nothing, the SELECT of medicines or of
\* customers (fetch_data then returns an empty frame), or, in the call-th call of
\* _create_notification_if_not_exists, the existence lookup or the INSERT.
NoFault == [kind |-> "none", call |-> 0]
ScanFaults ==
    {NoFault}
    \cup [kind : {"medicines", "customers"}, call : {0}]
    \cup [kind : {"lookup", "insert"}, call : 1..(2 * NumMeds + NumCustomers)]

\* SELECT NotificationID ... WHERE Type, RelatedTable, RelatedID match AND
\* Status = 'Unread'
UnreadFor(rows, n_type, table, rel_id) ==
    {i \in 1..Len(rows) : /\ rows[i].Type = n_type
                          /\ rows[i].RelatedTable = table
                          /\ rows[i].RelatedID = rel_id
                          /\ rows[i].Status = "Unread"}

\* Variant whose lookup also matches on severity.
create_notification_if_no_same_severity(d, a, lookup_failed, insert_failed) ==
    LET exists == IF lookup_failed THEN {}
                  ELSE {i \in UnreadFor(d.notifications, a.Type, a.RelatedTable,
                                        a.RelatedID) :
                           d.notifications[i].severity = a.severity}
    IN IF exists = {}
       THEN execute_query(d, [op |-> "InsertNotification", alert |-> a],
                          insert_failed, TRUE).db
       ELSE d

\* Variant whose lookup also matches on the message text.
create_notification_if_no_same_message(d, a, lookup_failed, insert_failed) ==
    LET exists == IF lookup_failed THEN {}
                  ELSE {i \in UnreadFor(d.notifications, a.Type, a.RelatedTable,
                                        a.RelatedID) :
                           d.notifications[i].Message = a.Message}
    IN IF exists = {}
       THEN execute_query(d, [op |-> "InsertNotification", alert |-> a],
                          insert_failed, TRUE).db
       ELSE d

\* Variant whose lookup matches rows of any status.
create_notification_if_never_notified(d, a, lookup_failed, insert_failed) ==
    LET exists == IF lookup_failed THEN {}
                  ELSE {i \in 1..Len(d.notifications) :
                           /\ d.notifications[i].Type = a.Type
                           /\ d.notifications[i].RelatedTable = a.RelatedTable
                           /\ d.notifications[i].RelatedID = a.RelatedID}
    IN IF exists = {}
       THEN execute_query(d, [op |-> "InsertNotification", alert |-> a],
                          insert_failed, TRUE).db
       ELSE d

\* Variant whose lookup asks for Status = 'Read'.
create_notification_if_not_read(d, a, lookup_failed, insert_failed) ==
    LET exists == IF lookup_failed THEN {}
                  ELSE {i \in 1..Len(d.notifications) :
                           /\ d.notifications[i].Type = a.Type
                           /\ d.notifications[i].RelatedTable = a.RelatedTable
                           /\ d.notifications[i].RelatedID = a.RelatedID
                           /\ d.notifications[i].Status = "Read"}
    IN IF exists = {}
       THEN execute_query(d, [op |-> "InsertNotification", alert |-> a],
                          insert_failed, TRUE).db
       ELSE d

\* _create_notification_if_not_exists: a failed lookup comes back as an empty
\* frame, exactly as a lookup that found nothing.
create_notification_if_not_exists(d, a, lookup_failed, insert_failed) ==
    LET exists == IF lookup_failed THEN {}
                  ELSE UnreadFor(d.notifications, a.Type, a.RelatedTable,
                                 a.RelatedID)
    IN IF exists = {}
       THEN execute_query(d, [op |-> "InsertNotification", alert |-> a],
                          insert_failed, TRUE).db
       ELSE d

RECURSIVE CreateAll(_, _, _, _)
CreateAll(d, alerts, i, fault) ==
    IF i > Len(alerts) THEN d
    ELSE CreateAll(create_notification_if_not_exists(
                       d, alerts[i],
                       fault.kind = "lookup" /\ fault.call = i,
                       fault.kind = "insert" /\ fault.call = i),
                   alerts, i + 1, fault)

\* The calls of one scan, in order: low stock, expiry, then outstanding dues
ScanAlerts(d, now, fault) ==
    (IF fault.kind = "medicines" THEN <<>>
     ELSE LowStockAlerts(d) \o ExpiryAlerts(d, now))
    \o (IF fault.kind = "customers" THEN <<>> ELSE FinanceAlerts(d))

\* generate_notifications, run by PharmacyERP.__init__ on every page load
generate_notifications(faults) ==
    \E fault \in faults :
       /\ fault.call <= Len(ScanAlerts(db, today, fault))
       /\ db' = CreateAll(db, ScanAlerts(db, today, fault), 1, fault)
       /\ Len(db'.notifications) <= MaxNotifications
       /\ last' = [op |-> "scan", ok |-> fault = NoFault]
       /\ UNCHANGED ledger

\* Variant acknowledging every notification of the same related record.
mark_as_read_same_record(notification_id, failed) ==
    /\ db' = IF failed THEN db
             ELSE [db EXCEPT !.notifications =
                     [i \in 1..Len(db.notifications) |->
                        IF db.notifications[i].RelatedID
                              = db.notifications[notification_id].RelatedID
                        THEN [db.notifications[i] EXCEPT !.Status = "Read"]
                        ELSE db.notifications[i]]]
    /\ last' = [op |-> "mark_as_read", ok |-> ~failed, id |-> notification_id]
    /\ UNCHANGED ledger

\* mark_as_read: UPDATE notifications SET Status='Read' WHERE NotificationID=%s
mark_as_read(notification_id, failed) ==
    LET r == execute_query(db, [op |-> "MarkRead", id |-> notification_id],
                           failed, TRUE)
    IN /\ db' = r.db
       /\ last' = [op |-> "mark_as_read", ok |-> r.ok, id |-> notification_id]
       /\ UNCHANGED ledger

\* "Mark as Read" is offered on the rows shown with Status Unread
MarkAsReadButton(rows) ==
    \E notification_id \in 1..Len(rows), failed \in BOOLEAN :
       /\ rows[notification_id].Status = "Unread"
       /\ mark_as_read(notification_id, failed)

\* mark_all_as_read: UPDATE notifications SET Status='Read' WHERE Status='Unread'
mark_all_as_read ==
    \E failed \in BOOLEAN :
       LET r == execute_query(db, [op |-> "MarkAllRead"], failed, TRUE)
       IN /\ db' = r.db
          /\ last' = [op |-> "mark_all_as_read", ok |-> r.ok]
          /\ UNCHANGED ledger

\* customers.py, "Save Customer" on the edit form: outstanding_amount is
\* written as typed
save_customer(amounts) ==
    \E customer_id \in Customers, outstanding_amount \in amounts,
       failed \in BOOLEAN :
       LET r == execute_query(db, [op |-> "SetOutstanding",
                                   customer |-> customer_id,
                                   amount |-> outstanding_amount], failed, TRUE)
       IN /\ db' = r.db
          /\ last' = [op |-> "save_customer", ok |-> r.ok]
          /\ UNCHANGED ledger

\* ------------------------------------------------------------ sessions
\* While editing_po_id is set, render() shows only the edit form.
OnList(s) == script[s] = "run" /\ editing_po_id[s] = None

MarkReceived(s) ==
    /\ OnList(s)
    /\ MarkReceivedButton(fetched_orders[s])
    /\ EndRun(s)
    /\ UNCHANGED editing_po_id

CreateOrder(s) ==
    /\ OnList(s)
    /\ CreatePO
    /\ EndRun(s)
    /\ UNCHANGED editing_po_id

Delete(s) ==
    /\ OnList(s)
    /\ DeleteButton(fetched_orders[s])
    /\ EndRun(s)
    /\ UNCHANGED editing_po_id

\* "Edit" on a row shown as Pending: editing_po_id is set and the script reruns
OpenEdit(s) ==
    /\ OnList(s)
    /\ \E po_id \in POIds :
          /\ fetched_orders[s][po_id].Status = "Pending"
          /\ editing_po_id' = [editing_po_id EXCEPT ![s] = po_id]
    /\ EndRun(s)
    /\ UNCHANGED <<db, last, ledger>>

SubmitEdit(s) ==
    /\ script[s] = "run"
    /\ edit_po_modal(s, fetched_orders[s], EditLists)
    /\ EndRun(s)

CancelEdit(s) ==
    /\ script[s] = "run"
    /\ editing_po_id[s] # None
    /\ editing_po_id' = [editing_po_id EXCEPT ![s] = None]
    /\ EndRun(s)
    /\ UNCHANGED <<db, last, ledger>>

Next ==
    \E s \in Sessions :
       \/ get_data(s)
       \/ CreateOrder(s)
       \/ OpenEdit(s)
       \/ SubmitEdit(s)
       \/ CancelEdit(s)
       \/ Delete(s)
       \/ MarkReceived(s)

Spec == Init /\ [][Next]_vars

\* --------------------------------------------- one operator at a time
\* A single operator: every handler acts on what its own script run has just
\* fetched, so the DataFrames it reads equal the store.
SessionIdle ==
    UNCHANGED <<fetched_orders, fetched_stock, script, editing_po_id, today,
                second, pending>>

SeqCreateOrder == CreatePO /\ SessionIdle

SeqMarkReceived == MarkReceivedButton(db.purchase_orders) /\ SessionIdle

SeqCreateReturn == create_return_form(db.purchase_orders) /\ SessionIdle

SeqSaveInvoice ==
    /\ Len(db.sales_invoices) < MaxInvoices
    /\ save_invoice(db.StockQty, PlainForms)
    /\ SessionIdle

SeqNext ==
    \/ SeqCreateOrder
    \/ SeqMarkReceived
    \/ SeqCreateReturn
    \/ SeqSaveInvoice

SeqSpec == Init /\ [][SeqNext]_vars

\* The purchase workflow on its own, one operator at a time.
PurchaseNext ==
    \/ SeqCreateOrder
    \/ SeqMarkReceived
    \/ SeqCreateReturn

PurchaseSpec == Init /\ [][PurchaseNext]_vars

\* The purchase order forms, one operator at a time: create, "Edit" and
\* "Update Purchase Order" with any whole number typed as a quantity, receive.
SeqOpenEdit ==
    /\ editing_po_id[1] = None
    /\ \E po_id \in POIds :
          /\ db.purchase_orders[po_id].Status = "Pending"
          /\ editing_po_id' = [editing_po_id EXCEPT ![1] = po_id]
    /\ UNCHANGED <<db, fetched_orders, fetched_stock, script, last, ledger, today,
                   second, pending>>

SeqSubmitEdit ==
    /\ edit_po_modal(1, db.purchase_orders, AnyEditLists)
    /\ UNCHANGED <<fetched_orders, fetched_stock, script, today, second, pending>>

OrderNext ==
    \/ SeqCreateOrder
    \/ SeqOpenEdit
    \/ SeqSubmitEdit
    \/ SeqMarkReceived

OrderSpec == Init /\ [][OrderNext]_vars

\* ------------------------------------------------ sales, two sessions
\* SalesModule.render(): self._get_master_data() at the start of a script run
get_master_data(s) ==
    /\ script[s] = "idle" \/ fetched_stock[s] # db.StockQty
    /\ fetched_stock' = [fetched_stock EXCEPT ![s] = db.StockQty]
    /\ script' = [script EXCEPT ![s] = "run"]
    /\ UNCHANGED <<db, fetched_orders, editing_po_id, last, ledger, today, second,
                   pending>>

\* "Save & Generate Invoice" in the run that fetched fetched_stock[s]
SaveInvoice(s) ==
    /\ script[s] = "run"
    /\ Len(db.sales_invoices) < MaxSales
    /\ save_invoice(fetched_stock[s], PlainForms)
    /\ EndRun(s)
    /\ UNCHANGED editing_po_id

SalesNext ==
    \E s \in Sessions :
       \/ get_master_data(s)
       \/ SaveInvoice(s)

SalesSpec == Init /\ [][SalesNext]_vars

\* ------------------------------------- stock adjustment, two sessions
\* InventoryModule.render(): self._get_data() at the start of a script run
get_inventory_data(s) ==
    /\ script[s] = "idle"
    /\ fetched_stock' = [fetched_stock EXCEPT ![s] = db.StockQty]
    /\ script' = [script EXCEPT ![s] = "inventory"]
    /\ UNCHANGED <<db, fetched_orders, editing_po_id, last, ledger, today, second,
                   pending>>

\* "Save Adjustment" of medicine 1 in the run that fetched fetched_stock[s]
AdjustStock(s) ==
    /\ script[s] = "inventory"
    /\ render_stock_adjustment_form(1, fetched_stock[s], {1}, MaxQty)
    /\ script' = [script EXCEPT ![s] = "idle"]
    /\ fetched_stock' = [fetched_stock EXCEPT ![s] = NoStock]
    /\ UNCHANGED <<fetched_orders, editing_po_id, today, second, pending>>

\* "Save & Generate Invoice" of the one invoice sold meanwhile
SaveOneInvoice(s) ==
    /\ script[s] = "run"
    /\ Len(db.sales_invoices) < MaxInvoices
    /\ save_invoice(fetched_stock[s], PlainForms)
    /\ EndRun(s)
    /\ UNCHANGED editing_po_id

AdjustNext ==
    \E s \in Sessions :
       \/ get_inventory_data(s)
       \/ AdjustStock(s)
       \/ get_master_data(s)
       \/ SaveOneInvoice(s)

AdjustSpec == Init /\ [][AdjustNext]_vars

\* ------------------------------------------------ sales, by the clock
\* One operator saving invoices while the clock runs: datetime.now() reads the
\* same second until a second has passed.
Tick ==
    /\ second < MaxSeconds
    /\ second' = second + 1
    /\ UNCHANGED <<db, fetched_orders, fetched_stock, script, editing_po_id, last,
                   ledger, today, pending>>

SeqSaveNextInvoice ==
    /\ Len(db.sales_invoices) < MaxSales
    /\ save_invoice(db.StockQty, PlainForms)
    /\ SessionIdle

ClockNext ==
    \/ Tick
    \/ SeqSaveNextInvoice

ClockSpec == Init /\ [][ClockNext]_vars

\* ------------------------------------------------- the invoice form
\* One operator at the invoice form, every widget tried, and at the stock
\* adjustment form, which puts between 0 and MaxQty units on the shelf.
SeqSaveInvoiceAnyForm ==
    /\ Len(db.sales_invoices) < MaxInvoices
    /\ save_invoice(db.StockQty, AllForms)
    /\ SessionIdle

SeqAdjustStock ==
    /\ \E item_id \in Meds :
          render_stock_adjustment_form(item_id, db.StockQty, {1}, MaxQty)
    /\ SessionIdle

InvoiceNext ==
    \/ SeqAdjustStock
    \/ SeqSaveInvoiceAnyForm

InvoiceSpec == Init /\ [][InvoiceNext]_vars

\* ------------------------------------------ the notification center
\* One operator: page loads that scan, acknowledgements, stock adjustments of
\* medicine 1 (in steps of 5 between 0 and Shelf), customer edits, one after the
\* other, and the passing of days (medicine 2 enters its expiry window on day
\* 1).  Every lookup of a scan is answered; rejected writes are included.
AnsweredFaults == {f \in ScanFaults : f.kind # "lookup"}

NotifInit ==
    /\ db = [InitStore EXCEPT
               !.StockQty = [m \in Meds |-> Shelf],
               !.ExpiryDate = [m \in Meds |->
                                 IF m = 1 THEN NoDate ELSE OnDay(31)]]
    /\ today = 0
    /\ second = 0
    /\ pending = [s \in Sessions |-> <<>>]
    /\ ledger = [NoLedger EXCEPT !.initial = [m \in Meds |-> Shelf]]
    /\ fetched_orders = [s \in Sessions |-> NoOrders]
    /\ fetched_stock = [s \in Sessions |-> NoStock]
    /\ script = [s \in Sessions |-> "idle"]
    /\ editing_po_id = [s \in Sessions |-> None]
    /\ last = [op |-> "init", ok |-> TRUE]

SeqScan == generate_notifications(AnsweredFaults) /\ SessionIdle

SeqMarkAsRead == MarkAsReadButton(db.notifications) /\ SessionIdle

SeqMarkAllAsRead == mark_all_as_read /\ SessionIdle

SeqAdjustShelf ==
    /\ render_stock_adjustment_form(1, db.StockQty, {high_sev_stock_threshold},
                                    Shelf)
    /\ SessionIdle

SeqSaveCustomer == save_customer({0, Due}) /\ SessionIdle

NextDay ==
    /\ today < MaxDays
    /\ today' = today + 1
    /\ last' = [op |-> "next_day", ok |-> TRUE]
    /\ UNCHANGED <<db, fetched_orders, fetched_stock, script, editing_po_id, ledger,
                   second, pending>>

NotifNext ==
    \/ SeqScan
    \/ SeqMarkAsRead
    \/ SeqMarkAllAsRead
    \/ SeqAdjustShelf
    \/ SeqSaveCustomer
    \/ NextDay

NotifSpec == NotifInit /\ [][NotifNext]_vars

\* ------------------------------------ page loads on a failing store
\* One operator on the store the program starts on (every medicine is at
\* Stock0, below the low-stock threshold): page loads that scan, with any one
\* call of the scan failing, the lookups included, and acknowledgements.
SeqScanAnyFault == generate_notifications(ScanFaults) /\ SessionIdle

LookupNext ==
    \/ SeqScanAnyFault
    \/ SeqMarkAsRead

LookupSpec == Init /\ [][LookupNext]_vars

\* ------------------------------------------- page loads, two sessions
\* The scan of a page load call by call: every fetch_data and execute_query
\* is a round trip on a connection of its own, and the calls of two sessions
\* interleave.  pending[s] holds the calls the scan of session s has left.
Lookups(alerts) == [i \in 1..Len(alerts) |-> [call |-> "lookup", alert |-> alerts[i]]]

\* _generate_inventory_alerts: the medicines are fetched and the candidates fixed
BeginScan(s) ==
    /\ pending[s] = <<>>
    /\ pending' = [pending EXCEPT ![s] =
                      Lookups(LowStockAlerts(db) \o ExpiryAlerts(db, today))
                      \o <<[call |-> "customers"]>>]
    /\ UNCHANGED <<db, fetched_orders, fetched_stock, script, editing_po_id, last,
                   ledger, today, second>>

\* _generate_finance_alerts: the customers are fetched
ScanCustomers(s) ==
    /\ pending[s] # <<>>
    /\ Head(pending[s]).call = "customers"
    /\ pending' = [pending EXCEPT ![s] = Lookups(FinanceAlerts(db)) \o Tail(@)]
    /\ UNCHANGED <<db, fetched_orders, fetched_stock, script, editing_po_id, last,
                   ledger, today, second>>

\* _create_notification_if_not_exists, the SELECT: exists.empty decides whether
\* the INSERT is the next call
ScanLookup(s) ==
    /\ pending[s] # <<>>
    /\ Head(pending[s]).call = "lookup"
    /\ LET a == Head(pending[s]).alert
           exists == UnreadFor(db.notifications, a.Type, a.RelatedTable,
                               a.RelatedID)
       IN pending' = [pending EXCEPT ![s] =
                        IF exists = {}
                        THEN <<[call |-> "insert", alert |-> a]>> \o Tail(@)
                        ELSE Tail(@)]
    /\ UNCHANGED <<db, fetched_orders, fetched_stock, script, editing_po_id, last,
                   ledger, today, second>>

\* _create_notification_if_not_exists, the INSERT
ScanInsert(s) ==
    /\ pending[s] # <<>>
    /\ Head(pending[s]).call = "insert"
    /\ Len(db.notifications) < MaxNotifications
    /\ db' = execute_query(db, [op |-> "InsertNotification",
                                alert |-> Head(pending[s]).alert], FALSE, TRUE).db
    /\ pending' = [pending EXCEPT ![s] = Tail(@)]
    /\ last' = [op |-> "scan", ok |-> TRUE]
    /\ UNCHANGED <<fetched_orders, fetched_stock, script, editing_po_id, ledger,
                   today, second>>

ScanRaceNext ==
    \/ \E s \in Sessions :
          \/ BeginScan(s)
          \/ ScanLookup(s)
          \/ ScanInsert(s)
          \/ ScanCustomers(s)
    \/ SeqMarkAsRead

ScanRaceSpec == Init /\ [][ScanRaceNext]_vars

\* ------------------------------------- the stock ledger, two sessions
\* Receive, purchase return and sales finalize from two sessions at once, on a
\* store that holds one Pending order.  Receive and return are one transaction
\* each; the writes of a finalize are separate calls, each committed on its
\* own, and the calls of the other session fall between them.  Every write of
\* a finalize is accepted.
LedgerInit ==
    /\ db = [InitStore EXCEPT
               !.purchase_orders[1] =
                   [Status |-> "Pending",
                    ItemsData |-> <<[MedicineID |-> 1, Quantity |-> MaxQty]>>],
               !.nextPO = 2]
    /\ today = 0
    /\ second = 0
    /\ pending = [s \in Sessions |-> <<>>]
    /\ ledger = [NoLedger EXCEPT !.initial = [m \in Meds |-> Stock0]]
    /\ fetched_orders = [s \in Sessions |-> NoOrders]
    /\ fetched_stock = [s \in Sessions |-> NoStock]
    /\ script = [s \in Sessions |-> "idle"]
    /\ editing_po_id = [s \in Sessions |-> None]
    /\ last = [op |-> "init", ok |-> TRUE]

CreateReturn(s) ==
    /\ OnList(s)
    /\ Len(db.purchase_returns) < MaxRacedReturns
    /\ create_return_form(fetched_orders[s])
    /\ EndRun(s)
    /\ UNCHANGED editing_po_id

\* _save_invoice up to the answer of the sales_invoices INSERT: the writes
\* that follow it are left to be made
BeginInvoice(s) ==
    /\ script[s] = "sales"
    /\ pending[s] = <<>>
    /\ Len(db.sales_invoices) < MaxInvoices
    /\ \E items \in LineLists, form \in PlainForms :
          /\ InvoiceFormAccepts(fetched_stock[s], items)
          /\ LET params == InvoiceParams(db.UnitPrice, items, form,
                                         InvoiceNumber(today, second))
                 writes == InvoiceWrites(db, items, params)
             IN /\ db' = execute_query(db, writes[1], FALSE, TRUE).db
                /\ pending' = [pending EXCEPT ![s] =
                                  [i \in 1..(Len(writes) - 1) |->
                                      [call |-> "write", q |-> writes[i + 1]]]]
                /\ ledger' = [ledger EXCEPT !.sold = Credit(ledger.sold, items)]
                /\ last' = [op |-> "finalize", ok |-> TRUE,
                            invoice |-> db.nextInvoice, complete |-> TRUE,
                            seen |-> fetched_stock[s]]
    /\ UNCHANGED <<fetched_orders, fetched_stock, script, editing_po_id, today,
                   second>>

\* The next execute_query of _save_invoice: the payment or one stock update.
\* last.after is the handler outcome this write comes after.
InvoiceWrite(s) ==
    /\ pending[s] # <<>>
    /\ Head(pending[s]).call = "write"
    /\ db' = execute_query(db, Head(pending[s]).q, FALSE, TRUE).db
    /\ pending' = [pending EXCEPT ![s] = Tail(@)]
    /\ last' = [op |-> "write", ok |-> TRUE,
                after |-> [op |-> last.op, ok |-> last.ok]]
    /\ UNCHANGED <<fetched_orders, fetched_stock, script, editing_po_id, ledger,
                   today, second>>

\* SalesModule.render() of the run that saves: self._get_master_data()
OpenSales(s) ==
    /\ script[s] = "idle"
    /\ pending[s] = <<>>
    /\ fetched_stock' = [fetched_stock EXCEPT ![s] = db.StockQty]
    /\ script' = [script EXCEPT ![s] = "sales"]
    /\ UNCHANGED <<db, fetched_orders, editing_po_id, last, ledger, today, second,
                   pending>>

\* st.rerun() after the last write of _save_invoice
CloseSales(s) ==
    /\ script[s] = "sales"
    /\ pending[s] = <<>>
    /\ script' = [script EXCEPT ![s] = "idle"]
    /\ fetched_stock' = [fetched_stock EXCEPT ![s] = NoStock]
    /\ UNCHANGED <<db, fetched_orders, editing_po_id, last, ledger, today, second,
                   pending>>

LedgerNext ==
    \E s \in Sessions :
       \/ get_data(s)
       \/ MarkReceived(s)
       \/ CreateReturn(s)
       \/ OpenSales(s)
       \/ BeginInvoice(s)
       \/ InvoiceWrite(s)
       \/ CloseSales(s)

LedgerSpec == LedgerInit /\ [][LedgerNext]_vars

\* ================================================================ claims
\* The row _save_invoice has just inserted, in the state after the step.
NewInvoice == db'.sales_invoices[Len(db'.sales_invoices)]

\* C1: over a sequential run of successful receive, purchase-return and
\* sales-finalize operations, every item's stock equals its initial quantity
\* plus what was received, minus what was returned, minus what was sold, summed
\* over every line that references the item.  (An item stops counting once a
\* finalize reported success although one of its stock updates was rejected:
\* that operation did not succeed.)
C1_LedgerEquation ==
    \A m \in Meds :
       ledger.clean[m] =>
          db.StockQty[m] = ledger.initial[m] + ledger.received[m]
                           - ledger.returned[m] - ledger.sold[m]

C1_Witness ==
    \E m \in Meds :
       /\ ledger.clean[m]
       /\ ledger.received[m] > 0
       /\ ledger.returned[m] > 0
       /\ ledger.sold[m] > 1

\* C2: in every state of a sequential run every item's stock is >= 0.
C2_StockNeverNegative == \A m \in Meds : db.StockQty[m] >= 0

\* C3: receiving a Pending order is all-or-nothing: either the transaction
\* reports success, the order becomes Received and every item is credited the
\* sum of its lines, or it reports failure and the store is exactly as before.
C3_ReceiveAllOrNothing ==
    [][SeqMarkReceived =>
         LET po == last'.po
             items == db.purchase_orders[po].ItemsData
         IN /\ db.purchase_orders[po].Status = "Pending"
            /\ \/ /\ last'.ok
                  /\ db'.purchase_orders[po].Status = "Received"
                  /\ \A m \in Meds :
                        db'.StockQty[m] = db.StockQty[m] + LineQty(items, m)
               \/ /\ ~last'.ok
                  /\ db' = db]_vars

\* A receive of a two-line order whose last stock update was rejected, after the
\* status update and the first credit had run: the order is still Pending.
C3_Witness ==
    /\ last.op = "receive"
    /\ ~last.ok
    /\ last.fault = 3
    /\ db.purchase_orders[last.po].Status = "Pending"
    /\ Len(db.purchase_orders[last.po].ItemsData) = 2
    /\ db.StockQty = [m \in Meds |-> Stock0]

\* C4: a receive issued for an order whose stored status is already Received
\* changes no stock quantity.
C4_ReceiveOnlyFromPending ==
    [][\A s \in Sessions :
          (MarkReceived(s) /\ db.purchase_orders[last'.po].Status = "Received")
             => db'.StockQty = db.StockQty]_vars

C7_ReturnsWithinReceived ==
    \A po \in POIds, m \in Meds :
       ReturnedQty(db.purchase_returns, po, m)
          <= LineQty(db.purchase_orders[po].ItemsData, m)

\* C8: a purchase return of more than the item's current stock fails and
\* changes nothing.
C8_ReturnBeyondStockRejected ==
    [][(SeqCreateReturn /\ last'.qty > db.StockQty[last'.med])
          => (~last'.ok /\ db' = db)]_vars

\* C9: execute_transaction reports True only if no statement and no commit
\* failed and the connection was there, and then every statement took effect;
\* whenever it reports False the store is as before the call.  For a purchase
\* return: the PurchaseReturn row is appended and the stock is decremented by
\* qty, or neither.
C9_TransactionAllOrNothing ==
    [][(SeqCreateReturn \/ SeqMarkReceived) =>
         /\ last'.ok <=> last'.fault = 0
         /\ ~last'.ok => db' = db
         /\ (last'.ok /\ last'.op = "return") =>
               /\ db'.purchase_returns =
                     Append(db.purchase_returns,
                            [PurchaseOrderID |-> last'.po,
                             MedicineID |-> last'.med, Quantity |-> last'.qty])
               /\ db'.StockQty =
                     [db.StockQty EXCEPT ![last'.med] = @ - last'.qty]
               /\ db'.purchase_orders = db.purchase_orders
         /\ (last'.ok /\ last'.op = "receive") =>
               db' = RunStatements(db,
                        ReceiveQueries(last'.po,
                                       db.purchase_orders[last'.po].ItemsData),
                        1, 0)]_vars

\* A return whose stock update was rejected after its INSERT had run, and a
\* store that holds no return row.
C9_Witness ==
    /\ last.op = "return"
    /\ ~last.ok
    /\ last.fault = 2
    /\ db.purchase_returns = <<>>
    /\ \E po \in POIds : db.purchase_orders[po].Status = "Received"

\* C10: sales finalize is all-or-nothing: a step of it leaves the store as it
\* was, or commits the invoice, its payment row when paid_amount > 0, and the
\* deduction of every line.
C10_FinalizeAllOrNothing ==
    [][SeqSaveInvoice =>
         \/ db' = db
         \/ /\ Len(db'.sales_invoices) = Len(db.sales_invoices) + 1
            /\ Len(db'.invoice_payments) =
                  Len(db.invoice_payments)
                  + (IF NewInvoice.PaidAmount > 0 THEN 1 ELSE 0)
            /\ \A m \in Meds :
                  db'.StockQty[m] =
                     db.StockQty[m] - LineQty(NewInvoice.ItemsData, m)]_vars
\* The payment rows of one invoice, summed
RECURSIVE PaymentsOf(_, _)
PaymentsOf(rows, invoice) ==
    IF rows = <<>> THEN 0
    ELSE (IF Head(rows).InvoiceID = invoice THEN Head(rows).Amount ELSE 0)
         + PaymentsOf(Tail(rows), invoice)

StoredInvoices == {db.sales_invoices[i] : i \in 1..Len(db.sales_invoices)}

\* C11 as stated: for every stored invoice (grand_total = 0 included), status
\* is Paid iff balance_due <= 0, Partially Paid iff 0 < paid < grand_total, and
\* Pending iff paid = 0.
C11_StatusAsStated ==
    \A inv \in StoredInvoices :
       /\ inv.BalanceDue = inv.GrandTotal - inv.PaidAmount
       /\ inv.Status = "Paid" <=> inv.BalanceDue <= 0
       /\ inv.Status = "Partially Paid" <=>
             (0 < inv.PaidAmount /\ inv.PaidAmount < inv.GrandTotal)
       /\ inv.Status = "Pending" <=> inv.PaidAmount = 0

\* C11 amended: for every stored invoice, status is Paid iff balance_due <= 0,
\* Partially Paid iff 0 < paid < grand_total, and Pending iff paid = 0 and
\* grand_total > 0 (an unpaid invoice of total 0 is Paid).
C11_StatusByBalance ==
    \A inv \in StoredInvoices :
       /\ inv.BalanceDue = inv.GrandTotal - inv.PaidAmount
       /\ inv.Status = "Paid" <=> inv.BalanceDue <= 0
       /\ inv.Status = "Partially Paid" <=>
             (0 < inv.PaidAmount /\ inv.PaidAmount < inv.GrandTotal)
       /\ inv.Status = "Pending" <=> (inv.PaidAmount = 0 /\ inv.GrandTotal > 0)

\* An invoice of total 0 with nothing paid, stored as Paid.
C11_Witness ==
    \E inv \in StoredInvoices :
       /\ inv.GrandTotal = 0
       /\ inv.PaidAmount = 0
       /\ inv.ItemsData # <<>>
       /\ inv.Status = "Paid"

\* Sum over the medicines of (units on the invoice) x (unit price), in money
RECURSIVE C12_LineSum(_, _)
C12_LineSum(inv, meds) ==
    IF meds = {} THEN 0
    ELSE LET m == CHOOSE x \in meds : TRUE
         IN LineQty(inv.ItemsData, m) * db.UnitPrice[m] * Scale
            + C12_LineSum(inv, meds \ {m})

\* C12: the totals stored by finalize satisfy subtotal = sum(qty x unit price),
\* tax_amount = (subtotal - discount_amount) x tax% / 100,
\* grand_total = subtotal - discount_amount + tax_amount and
\* balance_due = grand_total - paid_amount, where
\* discount_amount = subtotal x discount% / 100.  (Both sides of each equation
\* are multiplied out so that no division is taken.)
C12_TotalsEquations ==
    \A inv \in StoredInvoices :
       LET discount100 == inv.SubTotal * inv.DiscountValue
       IN /\ inv.SubTotal = C12_LineSum(inv, Meds)
          /\ inv.TaxAmount * 100 * 100 =
                (inv.SubTotal * 100 - discount100) * inv.TaxPercent
          /\ inv.GrandTotal * 100 =
                inv.SubTotal * 100 - discount100 + inv.TaxAmount * 100
          /\ inv.BalanceDue = inv.GrandTotal - inv.PaidAmount

\* A stored invoice of two lines with a discount, a tax and a part payment.
C12_Witness ==
    \E inv \in StoredInvoices :
       /\ Len(inv.ItemsData) = 2
       /\ inv.DiscountValue = 50
       /\ inv.TaxPercent = 17
       /\ inv.TaxAmount > 0
       /\ 0 < inv.PaidAmount
       /\ inv.PaidAmount < inv.GrandTotal

\* C13: for every stored invoice, the amounts of its payment rows sum to its
\* paid_amount.
C13_PaymentsMatchPaidAmount ==
    \A inv \in StoredInvoices :
       PaymentsOf(db.invoice_payments, inv.InvoiceID) = inv.PaidAmount
\* The notifications a step has appended that are Low Stock alerts of medicine m
NewLowStock(m) ==
    {i \in (Len(db.notifications) + 1)..Len(db'.notifications) :
        /\ db'.notifications[i].Type = "Low Stock"
        /\ db'.notifications[i].RelatedTable = "medicines"
        /\ db'.notifications[i].RelatedID = m}

UnreadLowStock(m) == UnreadFor(db.notifications, "Low Stock", "medicines", m)

\* C14: after any sequential run of scans, acknowledgements and stock or
\* customer-balance changes there is at most one Unread notification for each
\* (type, related table, related id).
C14_AtMostOneUnreadPerKey ==
    \A i, j \in 1..Len(db.notifications) :
       (/\ db.notifications[i].Status = "Unread"
        /\ db.notifications[j].Status = "Unread"
        /\ db.notifications[i].Type = db.notifications[j].Type
        /\ db.notifications[i].RelatedTable = db.notifications[j].RelatedTable
        /\ db.notifications[i].RelatedID = db.notifications[j].RelatedID)
          => i = j

\* Two alerts of one key, the acknowledged one raised at another quantity than
\* the Unread one, next to an Unread alert of another key.
C14_Witness ==
    \E i, j, k \in 1..Len(db.notifications) :
       /\ i < j
       /\ db.notifications[i].Type = "Low Stock"
       /\ db.notifications[j].Type = "Low Stock"
       /\ db.notifications[i].RelatedID = db.notifications[j].RelatedID
       /\ db.notifications[i].Status = "Read"
       /\ db.notifications[j].Status = "Unread"
       /\ db.notifications[i].severity # db.notifications[j].severity
       /\ db.notifications[k].Type # "Low Stock"
       /\ db.notifications[k].Status = "Unread"

\* C15: a scan that follows a scan, with nothing changed in between and no
\* database call of either rejected, adds, removes and alters no notification.
C15_ScanIdempotent ==
    [][(last'.op = "scan" /\ last.op = "scan" /\ last.ok /\ last'.ok)
          => db'.notifications = db.notifications]_vars

\* The state a clean scan leaves with low stock and a due both notified and both
\* still unresolved: the next scan starts here.
C15_Witness ==
    /\ last.op = "scan"
    /\ last.ok
    /\ db.StockQty[1] <= low_stock_threshold
    /\ db.outstanding_amount[1] > 0
    /\ UnreadLowStock(1) # {}
    /\ UnreadFor(db.notifications, "Outstanding Due", "customers", 1) # {}

\* C16: a scan over an item at or below the low-stock threshold creates exactly
\* one new Low Stock notification for it when none of its Low Stock
\* notifications is Unread (all were marked Read, or there was none), and no
\* scan creates one while an Unread one exists.
C16_RefiresOnlyAfterRead ==
    [][last'.op = "scan" =>
         \A m \in Meds :
            db.StockQty[m] <= low_stock_threshold =>
               /\ UnreadLowStock(m) # {} => NewLowStock(m) = {}
               /\ (UnreadLowStock(m) = {} /\ last'.ok) =>
                     /\ Cardinality(NewLowStock(m)) = 1
                     /\ \A i \in NewLowStock(m) :
                           db'.notifications[i].Status = "Unread"]_vars

\* After mark-all-read and a rescan: every earlier notification is Read and the
\* still-low item has a fresh Unread alert quoting the same quantity.
C16_Witness ==
    /\ last.op = "scan"
    /\ \E i, j \in 1..Len(db.notifications) :
          /\ i < j
          /\ j = Len(db.notifications)
          /\ db.notifications[i].Type = "Low Stock"
          /\ db.notifications[j].Type = "Low Stock"
          /\ db.notifications[i].RelatedID = db.notifications[j].RelatedID
          /\ db.notifications[i].Message = db.notifications[j].Message
          /\ db.notifications[j].Status = "Unread"
          /\ \A k \in 1..(j - 1) : db.notifications[k].Status = "Read"

\* C17: a scan raises a Low Stock alert for an item exactly when its quantity
\* is <= low_stock_threshold and it has no Unread Low Stock alert (and the
\* scan's database calls were answered), with severity High when the quantity
\* is <= high_sev_stock_threshold and Medium otherwise; an item above the
\* threshold gets none.
C17_LowStockThresholds ==
    [][last'.op = "scan" =>
         \A m \in Meds :
            /\ db.StockQty[m] > low_stock_threshold => NewLowStock(m) = {}
            /\ \A i \in NewLowStock(m) :
                  /\ UnreadLowStock(m) = {}
                  /\ db'.notifications[i].Message = db.StockQty[m]
                  /\ db'.notifications[i].severity =
                        (IF db.StockQty[m] <= high_sev_stock_threshold
                         THEN "High" ELSE "Medium")
            /\ (/\ db.StockQty[m] <= low_stock_threshold
                /\ UnreadLowStock(m) = {}
                /\ last'.ok) => NewLowStock(m) # {}]_vars

\* A Medium alert raised at exactly the low-stock threshold and a High alert
\* raised at exactly the high-severity threshold, and an item above the
\* threshold without any alert.
C17_Witness ==
    /\ \E i, j \in 1..Len(db.notifications) :
          /\ db.notifications[i].Type = "Low Stock"
          /\ db.notifications[i].Message = low_stock_threshold
          /\ db.notifications[i].severity = "Medium"
          /\ db.notifications[j].Type = "Low Stock"
          /\ db.notifications[j].Message = high_sev_stock_threshold
          /\ db.notifications[j].severity = "High"
    /\ \E m \in Meds :
          /\ db.StockQty[m] > low_stock_threshold
          /\ \A i \in 1..Len(db.notifications) :
                db.notifications[i].Type = "Low Stock"
                   => db.notifications[i].RelatedID # m

\* C18: a scan alters no existing notification, and while an item has an Unread
\* Low Stock alert a scan creates no further one for it, whatever its quantity
\* has become; an alert created after the acknowledgement carries the severity
\* of the quantity at that scan.
C18_DedupIgnoresSeverity ==
    [][last'.op = "scan" =>
         /\ \A i \in 1..Len(db.notifications) :
               db'.notifications[i] = db.notifications[i]
         /\ \A m \in Meds :
               /\ UnreadLowStock(m) # {} => NewLowStock(m) = {}
               /\ \A i \in NewLowStock(m) :
                     db'.notifications[i].severity = "High"
                        <=> db.StockQty[m] <= high_sev_stock_threshold]_vars

\* After a scan: the only Low Stock alert of an item is Unread and Medium,
\* quoting a quantity above the high-severity threshold, while the item's
\* quantity is now at or below it.
C18_Witness ==
    /\ last.op = "scan"
    /\ \E m \in Meds :
          /\ db.StockQty[m] <= high_sev_stock_threshold
          /\ UnreadLowStock(m) # {}
          /\ \A i \in 1..Len(db.notifications) :
                (db.notifications[i].Type = "Low Stock"
                 /\ db.notifications[i].RelatedID = m)
                   => /\ db.notifications[i].Status = "Unread"
                      /\ db.notifications[i].severity = "Medium"
                      /\ db.notifications[i].Message > high_sev_stock_threshold

\* C19: a notification that is Read stays Read through every scan and
\* acknowledgement; a committed mark_all_as_read leaves no Unread notification;
\* mark_as_read(id) changes nothing but the status of notification id.
C19_AcknowledgementMonotonic ==
    [][/\ \A i \in 1..Len(db.notifications) :
             /\ i <= Len(db'.notifications)
             /\ db.notifications[i].Status = "Read"
                   => db'.notifications[i].Status = "Read"
       /\ (last'.op = "mark_all_as_read" /\ last'.ok) =>
             \A i \in 1..Len(db'.notifications) :
                db'.notifications[i].Status = "Read"
       /\ last'.op = "mark_as_read" =>
             /\ Len(db'.notifications) = Len(db.notifications)
             /\ \A i \in 1..Len(db.notifications) :
                   db'.notifications[i] =
                      (IF i = last'.id /\ last'.ok
                       THEN [db.notifications[i] EXCEPT !.Status = "Read"]
                       ELSE db.notifications[i])]_vars

\* One notification just acknowledged while another one about a record with the
\* same id is still Unread.
C19_Witness ==
    /\ last.op = "mark_as_read"
    /\ last.ok
    /\ db.notifications[last.id].Status = "Read"
    /\ \E i \in 1..Len(db.notifications) :
          /\ i # last.id
          /\ db.notifications[i].RelatedID = db.notifications[last.id].RelatedID
          /\ db.notifications[i].Status = "Unread"
\* C20: a sales finalize whose writes are all accepted reports success and
\* lowers each item's stock by the quantity on the invoice, whatever the stock
\* has become since the session read it: its lines were checked against the
\* quantity the session had read, line by line, and against nothing else.  Two
\* sessions that read the same quantity q can so both finalize q1 <= q and
\* q2 <= q with q1 + q2 > q and leave q - q1 - q2 < 0.
C20_ConcurrentFinalizeOversells ==
    [][(/\ last'.op = "finalize"
        /\ Len(db'.sales_invoices) > Len(db.sales_invoices)
        /\ last'.complete)
          => /\ last'.ok
             /\ \A i \in 1..Len(NewInvoice.ItemsData) :
                   NewInvoice.ItemsData[i].Quantity
                      <= last'.seen[NewInvoice.ItemsData[i].MedicineID]
             /\ \A m \in Meds :
                   db'.StockQty[m] =
                      db.StockQty[m] - LineQty(NewInvoice.ItemsData, m)]_vars

\* Two invoices, both reported saved, each for no more of an item than the
\* quantity q = Stock0 both sessions had read, and the item's stock at
\* q - q1 - q2 < 0.
C20_Witness ==
    /\ Len(db.sales_invoices) = 2
    /\ last.op = "finalize"
    /\ last.ok
    /\ \E m \in Meds :
          LET q1 == LineQty(db.sales_invoices[1].ItemsData, m)
              q2 == LineQty(db.sales_invoices[2].ItemsData, m)
          IN /\ last.seen[m] = Stock0
             /\ q1 <= Stock0
             /\ q2 <= Stock0
             /\ q1 + q2 > Stock0
             /\ db.StockQty[m] = Stock0 - q1 - q2
             /\ db.StockQty[m] < 0

\* C25: a finalize that has written the invoice row and then has its payment
\* insert or one of its stock decrements rejected reports failure.
C25_MidSequenceFailureReported ==
    [][(/\ last'.op = "finalize"
        /\ Len(db'.sales_invoices) > Len(db.sales_invoices)
        /\ ~last'.complete)
          => ~last'.ok]_vars

C26_ReportsWhatWasCommitted ==
    [][(last'.op \in {"create_po", "edit", "delete", "adjust"} /\ last'.sent)
          => (last'.reported <=> last'.ok)]_vars

C28_InvoiceNumbersDistinct ==
    \A i, j \in 1..Len(db.sales_invoices) :
       i # j => db.sales_invoices[i].InvoiceNumber
                   # db.sales_invoices[j].InvoiceNumber

\* C30: a scan appends no notification for a key (Type, RelatedTable,
\* RelatedID) that already has an Unread notification, also when the lookup of
\* that key fails.
C30_NoDuplicateOnFailedLookup ==
    [][last'.op = "scan"
          => \A i \in (Len(db.notifications) + 1)..Len(db'.notifications) :
                UnreadFor(db.notifications, db'.notifications[i].Type,
                          db'.notifications[i].RelatedTable,
                          db'.notifications[i].RelatedID) = {}]_vars

\* The quantity an adjustment of the given type asks for, from the quantity
\* the form shows as current
Asked(current, adj_type, quantity) ==
    IF adj_type = "Add to Stock" THEN current + quantity
    ELSE IF adj_type = "Remove from Stock" THEN current - quantity
    ELSE quantity

\* C23: a manual adjustment asks for current + q (Add), current - q (Remove) or
\* the value given (Correction).  When that is negative the adjustment is
\* rejected with an error, sends nothing and leaves the store as it was; when
\* it is not, a committed adjustment stores exactly that quantity, which is
\* never negative, and changes nothing else.
C23_AdjustmentArithmetic ==
    [][last'.op = "adjust"
          => LET asked == Asked(db.StockQty[last'.med], last'.adj_type,
                                    last'.quantity)
             IN IF asked < 0
                THEN /\ ~last'.sent
                     /\ ~last'.ok
                     /\ ~last'.reported
                     /\ db' = db
                ELSE /\ last'.sent
                     /\ last'.ok => /\ db' = [db EXCEPT !.StockQty[last'.med] = asked]
                                    /\ db'.StockQty[last'.med] >= 0
                     /\ ~last'.ok => db' = db]_vars

\* A Remove of more than the shelf holds has just been rejected.
C23_Witness ==
    /\ last.op = "adjust"
    /\ last.adj_type = "Remove from Stock"
    /\ ~last.sent
    /\ db.StockQty[last.med] - last.quantity < 0

\* C22: a committed manual adjustment stores the quantity computed from what
\* the session's script run had read (read + q, read - q, or the value given),
\* whatever the store holds when the write commits: when a sale has committed
\* since the read, the quantity it had left is overwritten.
C22_AdjustmentWritesFromItsRead ==
    [][\A s \in Sessions :
          (script[s] = "inventory" /\ script'[s] = "idle" /\ last'.ok)
             => /\ last'.op = "adjust"
                /\ last'.seen = fetched_stock[s][last'.med]
                /\ last'.before = db.StockQty[last'.med]
                /\ db'.StockQty[last'.med] = Asked(last'.seen, last'.adj_type,
                                                   last'.quantity)]_vars

\* An Add has just committed over a sale that committed after the session had
\* read the quantity: the store holds read + q, not (read - sold) + q.
C22_Witness ==
    /\ last.op = "adjust"
    /\ last.ok
    /\ last.adj_type = "Add to Stock"
    /\ ledger.sold[last.med] > 0
    /\ last.before = last.seen - ledger.sold[last.med]
    /\ db.StockQty[last.med] = last.seen + last.quantity

\* C24: while two sessions run generate_notifications at the same time, no
\* two Unread notifications of the store have the same (type, related table,
\* related id).
C24_AtMostOneUnreadWhenConcurrent ==
    \A i \in 1..Len(db.notifications) :
       db.notifications[i].Status = "Unread"
          => UnreadFor(db.notifications, db.notifications[i].Type,
                       db.notifications[i].RelatedTable,
                       db.notifications[i].RelatedID) = {i}

\* C21: whatever the interleaving of receives, purchase returns and finalizes
\* of two sessions, once no finalize has a write left to make every item's
\* stock is initial + received - returned - sold.
C21_NoCommittedAdjustmentLost ==
    (\A s \in Sessions : pending[s] = <<>>)
       => \A m \in Meds :
             db.StockQty[m] = ledger.initial[m] + ledger.received[m]
                                 - ledger.returned[m] - ledger.sold[m]

\* A receive, a return and a sale of medicine 1 have all committed, the return
\* between the invoice row and the last stock update of the sale.
C21_Witness ==
    /\ \A s \in Sessions : pending[s] = <<>>
    /\ ledger.received[1] > 0
    /\ ledger.returned[1] > 0
    /\ ledger.sold[1] > 0
    /\ last.op = "write"
    /\ last.after.op = "return"
    /\ last.after.ok
====
